---------------------------- MODULE Spec2Model ----------------------------
(***************************************************************************)
(* A model of src/index.js, the process-wide configuration accessor `cfg`. *)
(*                                                                         *)
(* JavaScript values are tagged records.  Objects (plain mappings and      *)
(* arrays) live in a heap and are referred to by identity, so that two     *)
(* properties holding the same object are aliases, as in the program.      *)
(* A property slot holds a property descriptor: a data value or a getter.  *)
(***************************************************************************)
EXTENDS Integers, Sequences, FiniteSets, TLC

VARIABLES
    config,     \* `let config` (index.js:5): Undef until first use
    heap,       \* the objects of the process: object id -> [kind, props]
    evals,      \* number of getter invocations so far
    loadRuns,   \* number of times readDefaultConfigFiles passed its guard
    fileCache,  \* `const fileCache = {}` (index.js:6): key string -> value
    fileReads,  \* number of fs.readFileSync calls so far
    nodeEnv,    \* process.env.NODE_ENV ("" when unset)
    ci,         \* truthiness of process.env.CI
    cfgVars,    \* the CFG__ variables of process.env, in enumeration order
    modules,    \* what require(path) does: path -> outcome
    fs,         \* what fs.readFileSync(path) does: path -> outcome
    firstRead,  \* history: key string -> value returned by the first read(key)
    last,       \* history: the last public call, its arguments and outcome
    ops         \* number of public calls made so far

vars == << config, heap, evals, loadRuns, fileCache, fileReads, nodeEnv, ci,
           cfgVars, modules, fs, firstRead, last, ops >>

world == << nodeEnv, ci, cfgVars, modules >>

(***************************************************************************)
(* Bounds                                                                  *)
(***************************************************************************)
\* public calls per behaviour
MaxOps == 2

(***************************************************************************)
(* JavaScript values                                                       *)
(***************************************************************************)
Undef == [t |-> "undef"]
Null == [t |-> "null"]
Num(n) == [t |-> "num", n |-> n]
Str(s) == [t |-> "str", s |-> s]
Ref(i) == [t |-> "ref", id |-> i]
Bytes(b) == [t |-> "buf", b |-> b]
\* a property descriptor with a `get` function; calling it yields GetterValue
Getter(g) == [t |-> "get", g |-> g]
GetterValue(d) == Str(d.g)

EmptyProps == [k \in {} |-> Undef]
FreeObj == [kind |-> "free", props |-> EmptyProps]
MapObj(p) == [kind |-> "map", props |-> p]
ArrObj(p) == [kind |-> "arr", props |-> p]

Put(f, k, v) == [x \in (DOMAIN f) \cup {k} |-> IF x = k THEN v ELSE f[x]]
Drop(f, k) == [x \in (DOMAIN f) \ {k} |-> f[x]]

\* JavaScript truthiness of a value
Truthy(v) ==
    /\ v.t \notin {"undef", "null"}
    /\ ~(v.t = "num" /\ v.n = 0)
    /\ ~(v.t = "str" /\ v.s = "")

\* `x instanceof Object`: plain objects and arrays, no primitive
InstanceOfObject(v) == v.t = "ref"

\* `typeof x === 'object'`: objects, arrays and null
TypeofObject(v) == v.t \in {"ref", "null", "buf"}

\* Object.prototype.toString.call(obj) === '[object Object]'
isObject(h, v) == v.t = "ref" /\ h[v.id].kind = "map"

\* Enumeration order of own keys: index keys first, then the order in which
\* the object literals of the model list their keys.
KeyOrder ==
    << "0", "1", "a", "b", "k", "x", "y", "z", "w", "p", "cfg", "path",
       "null", "undefined", "7",
       "$privateConfigFile", "$env_development", "$env_production", "$env_CI" >>

OwnKeys(o) == SelectSeq(KeyOrder, LAMBDA k : k \in DOMAIN o.props)

\* The machine state the handlers thread: the module-level `config`, the
\* heap, the getter and load counters, the pending exception (`err`, "none"
\* when there is none) and the value being returned (`ret`).
Machine(c, h, e, r) ==
    [config |-> c, heap |-> h, evals |-> e, loadRuns |-> r,
     err |-> "none", ret |-> Undef]

Cur == Machine(config, heap, evals, loadRuns)

\* no exception is pending
Ok(m) == m.err = "none"

\* Reading property `key` of value `v` (obj[key]): a getter is invoked.
PropRead(m, v, key) ==
    IF v.t # "ref" \/ key \notin DOMAIN m.heap[v.id].props
    THEN [m EXCEPT !.ret = Undef]
    ELSE LET d == m.heap[v.id].props[key]
         IN  IF d.t = "get"
             THEN [m EXCEPT !.ret = GetterValue(d), !.evals = @ + 1]
             ELSE [m EXCEPT !.ret = d]

\* Object.defineProperty(obj, key, desc)
defineProperty(m, obj, key, desc) ==
    [m EXCEPT !.heap[obj].props = Put(@, key, desc)]

RECURSIVE merge(_, _, _)

\* mergeKey with a fault: it recurses whenever src holds a plain mapping and
\* dest holds any object, without the isObject test on dest
mergeKey_noDestTest(m, obj, sid, key) ==
    LET objHas == key \in DOMAIN m.heap[obj].props
        objVal == m.heap[obj].props[key]
        srcVal == m.heap[sid].props[key]
    IN  IF /\ objHas
           /\ objVal.t = "ref"
           /\ srcVal.t # "get"
           /\ isObject(m.heap, srcVal)
        THEN merge(m, objVal.id, srcVal)
        ELSE defineProperty(m, obj, key, srcVal)

\* the body of merge's forEach callback for one key of src
mergeKey(m, obj, sid, key) ==
    LET objHas == key \in DOMAIN m.heap[obj].props
        objVal == m.heap[obj].props[key]
        srcVal == m.heap[sid].props[key]
    IN  IF /\ objHas
           /\ objVal.t # "get"
           /\ srcVal.t # "get"
           /\ isObject(m.heap, srcVal)
           /\ isObject(m.heap, objVal)
        THEN merge(m, objVal.id, srcVal)
        ELSE defineProperty(m, obj, key, srcVal)

RECURSIVE mergeKeys(_, _, _, _)
\* Object.keys(src).forEach(...): the key list is taken once, before the loop
mergeKeys(m, obj, sid, ks) ==
    IF ks = << >> THEN m
    ELSE mergeKeys(mergeKey(m, obj, sid, Head(ks)), obj, sid, Tail(ks))

\* merge(obj, src): obj is an object id, src any value.  A number has no own
\* keys; the model passes no non-empty string as src.
merge(m, obj, src) ==
    IF ~Truthy(src) \/ src.t # "ref" THEN m
    ELSE mergeKeys(m, obj, src.id, OwnKeys(m.heap[src.id]))

(***************************************************************************)
(* The process environment                                                 *)
(***************************************************************************)
\* env(): process.env.NODE_ENV || 'development'
env == IF nodeEnv = "" THEN "development" ELSE nodeEnv

\* the template string `$env_${env()}`
EnvOverrideKey ==
    CASE env = "development" -> "$env_development"
      [] env = "production" -> "$env_production"
      [] env = "CI" -> "$env_CI"

\* cfg.isCI(): !!process.env.CI
isCI == ci

(***************************************************************************)
(* lodash: _.get and _.set on key paths                                    *)
(***************************************************************************)
\* stringToPath on the dotted key strings the model uses; a string without
\* a dot is a path of one segment
PathTable == [s \in {"cfg.path"} |-> << "cfg", "path" >>]

\* castPath(key, object): a string that is a property of object is taken as
\* one literal key, any other string is split at its dots
castPath(h, object, s) ==
    IF s \in DOMAIN PathTable
       /\ ~(object.t = "ref" /\ s \in DOMAIN h[object.id].props)
    THEN PathTable[s]
    ELSE << s >>

\* toKey of a non-string key argument: value + ''
ToKeyString(v) ==
    CASE v.t = "str" -> v.s
      [] v.t = "null" -> "null"
      [] v.t = "undef" -> "undefined"
      [] v.t = "num" /\ v.n = 7 -> "7"

RECURSIVE baseGet(_, _, _)

\* one step of baseGet's loop: object = object[key], then the rest of the path
baseGetNext(r, path) == baseGet(r, r.ret, path)

\* baseGet: while (object != null && index < length) object = object[key]
baseGet(m, object, path) ==
    IF path = << >> THEN [m EXCEPT !.ret = object]
    ELSE IF object.t \in {"undef", "null"} THEN [m EXCEPT !.ret = Undef]
    ELSE baseGetNext(PropRead(m, object, Head(path)), Tail(path))

\* result === undefined ? defaultValue : result
orDefault(r, defaultValue) ==
    IF r.ret = Undef THEN [r EXCEPT !.ret = defaultValue] ELSE r

\* _.get(object, path, defaultValue)
LodashGet(m, object, s, defaultValue) ==
    IF object.t \in {"undef", "null"}
    THEN [m EXCEPT !.ret = defaultValue]
    ELSE orDefault(baseGet(m, object, castPath(m.heap, object, s)), defaultValue)

\* objects _.set may create for missing path segments
FreshIds == << "n1", "n2" >>

FreeFresh(h) == SelectSeq(FreshIds, LAMBDA i : h[i].kind = "free")

\* isIndex(key): the key of an array element
IsIndexKey(k) == k \in {"0", "1", "7"}

\* baseAssignValue after assignValue's test, r being the machine after the
\* read of object[key].  lodash runs in sloppy mode: assigning to a property
\* that has a getter and no setter does nothing.
assignTested(r, object, key, value) ==
    IF key \in DOMAIN r.heap[object.id].props
       /\ (r.ret = value \/ r.heap[object.id].props[key].t = "get")
    THEN r
    ELSE defineProperty(r, object.id, key, value)

\* assignValue(object, key, value); assigning to a primitive does nothing
assignValue(m, object, key, value) ==
    IF object.t # "ref" THEN m
    ELSE assignTested(PropRead(m, object, key), object, key, value)

RECURSIVE baseSet(_, _, _, _)

\* nested = nested[key], then the rest of the path
baseSetNext(r, path, value) == baseSet(r, r.ret, path, value)

\* a new {} or [] for a missing segment; "bound" when the model has no
\* object left to give
makeSegment(r, nextKey) ==
    IF FreeFresh(r.heap) = << >> THEN [r EXCEPT !.err = "bound"]
    ELSE [r EXCEPT !.heap[Head(FreeFresh(r.heap))] =
                      IF IsIndexKey(nextKey) THEN ArrObj(EmptyProps)
                      ELSE MapObj(EmptyProps),
                   !.ret = Ref(Head(FreeFresh(r.heap)))]

\* newValue = isObject(objValue) ? objValue : {} (or []), r being the machine
\* after the read of objValue = nested[key]
segmentValue(r, nextKey) ==
    IF r.ret.t = "ref" THEN r ELSE makeSegment(r, nextKey)

\* assignValue(nested, key, newValue), r.ret being newValue
assignSegment(r, nested, key) ==
    IF ~Ok(r) THEN r ELSE assignValue(r, nested, key, r.ret)

\* the loop of baseSet from `nested` along `path`
baseSet(m, nested, path, value) ==
    IF ~Ok(m) \/ path = << >> \/ nested.t \in {"undef", "null"} THEN m
    ELSE IF Len(path) = 1 THEN assignValue(m, nested, Head(path), value)
    ELSE baseSetNext(
            PropRead(
                assignSegment(
                    segmentValue(PropRead(m, nested, Head(path)), path[2]),
                    nested, Head(path)),
                nested, Head(path)),
            Tail(path), value)

\* _.set(object, path, value)
LodashSet(m, object, s, value) ==
    IF object.t # "ref" THEN m
    ELSE baseSet(m, object, castPath(m.heap, object, s), value)

(***************************************************************************)
(* Object.assign(target, source)                                           *)
(***************************************************************************)
RECURSIVE assignKeys(_, _, _, _)

\* target[key] = value, r.ret being the value read from the source: a
\* strict-mode assignment, which throws a TypeError on a getter without
\* setter; then the remaining keys
assignKey(r, target, src, ks) ==
    IF Head(ks) \in DOMAIN r.heap[target].props
       /\ r.heap[target].props[Head(ks)].t = "get"
    THEN [r EXCEPT !.err = "TypeError"]
    ELSE assignKeys(defineProperty(r, target, Head(ks), r.ret), target, src, Tail(ks))

\* for each own enumerable key of the source
assignKeys(m, target, src, ks) ==
    IF ks = << >> THEN m
    ELSE assignKey(PropRead(m, src, Head(ks)), target, src, ks)

\* a number has no own keys; the model passes no non-empty string as source
ObjectAssign(m, target, src) ==
    IF src.t # "ref" THEN m
    ELSE assignKeys(m, target, src, OwnKeys(m.heap[src.id]))

(***************************************************************************)
(* Files                                                                   *)
(***************************************************************************)
\* path.isAbsolute(file), on the path strings of the model
RelativePaths == {"conf/rel.js"}
IsAbsolute(file) == file \notin RelativePaths

\* require(file): the module's export (the same object on every call, as
\* require caches it), or the error it throws.  "missing": no such file;
\* "depMissing": the file exists and a module it requires does not (node
\* gives both errors the code MODULE_NOT_FOUND); "throws": the file exists
\* and loading it throws another error.
Missing == [k |-> "missing"]
DepMissing == [k |-> "depMissing"]
Throws == [k |-> "throws"]
Exports(v) == [k |-> "exports", v |-> v]

Require(file) == IF file \in DOMAIN modules THEN modules[file] ELSE Missing

RequireError(out) ==
    CASE out.k = "missing" -> "MODULE_NOT_FOUND"
      [] out.k = "depMissing" -> "MODULE_NOT_FOUND"
      [] out.k = "throws" -> "LOAD_ERROR"

Options(nf, ie, ow) == [ignoreNotFound |-> nf, ignoreErrors |-> ie, overwrite |-> ow]
AllOptions == [ignoreNotFound : BOOLEAN, ignoreErrors : BOOLEAN, overwrite : BOOLEAN]
\* {ignoreNotFound: true}
IgnoreNotFound == Options(TRUE, FALSE, FALSE)

\* path.join(cwd, 'config.js'), ... for the active environment
EnvFile == [development |-> "/cwd/config.development.js",
            production |-> "/cwd/config.production.js",
            CI |-> "/cwd/config.CI.js"]
PrivateEnvFile == [development |-> "/cwd/private/config.development.js",
                   production |-> "/cwd/private/config.production.js",
                   CI |-> "/cwd/private/config.CI.js"]

\* the files readDefaultConfigFiles loads before $privateConfigFile, in order
DefaultFiles ==
    << "/cwd/config.js", EnvFile[env] >>
    \o (IF isCI THEN << "/cwd/config.CI.js" >> ELSE << >>)
    \o << "/cwd/private/config.js", PrivateEnvFile[env] >>
    \o (IF isCI THEN << "/cwd/private/config.CI.js" >> ELSE << >>)

(***************************************************************************)
(* CFG__ environment variables                                             *)
(***************************************************************************)
\* val.slice(5).split('__').map(el => _.camelCase(el)).join('.')
EnvVarKey == [CFG__K |-> "k", CFG__CFG__PATH |-> "cfg.path", CFG__P |-> "p"]

\* A variable is [name, raw, tagged, parses, parsed]: `raw` is its string,
\* `tagged` says that raw starts with '@JSON:', `parses` that the rest is
\* JSON, and `parsed` is then the value JSON.parse returns.
EnvVar(name, raw) ==
    [name |-> name, raw |-> raw, tagged |-> FALSE, parses |-> FALSE, parsed |-> Undef]
JsonEnvVar(name, raw, v) ==
    [name |-> name, raw |-> raw, tagged |-> TRUE, parses |-> TRUE, parsed |-> v]
BadJsonEnvVar(name, raw) ==
    [name |-> name, raw |-> raw, tagged |-> TRUE, parses |-> FALSE, parsed |-> Undef]

\* envVal after the @JSON: step; a parse failure leaves the raw string
EnvValue(v) ==
    IF v.raw # "" /\ v.tagged /\ v.parses THEN v.parsed ELSE Str(v.raw)

(***************************************************************************)
(* The handlers of cfg                                                     *)
(***************************************************************************)
RECURSIVE readDefaultConfigFiles(_)

\* `return _.get(config, key, defaultValue)` of cfg
getBody(m, key, defaultValue) ==
    IF ~Ok(m) THEN m ELSE LodashGet(m, m.config, key, defaultValue)

\* cfg(key, defaultValue) and cfg.get
cfg(m, key, defaultValue) ==
    getBody(readDefaultConfigFiles(m), key, defaultValue)

\* Object.assign(config, <value just read>)
assignRead(r) == ObjectAssign(r, r.config.id, r.ret)

\* Object.assign(config, obj[key]); an exception skips it
assignOverride(m, obj, key) ==
    IF ~Ok(m) THEN m ELSE assignRead(PropRead(m, obj, key))

\* if (cfg.isCI()) Object.assign(config, obj.$env_CI)
assignCI(m, obj) == IF isCI THEN assignOverride(m, obj, "$env_CI") ELSE m

\* the three Object.assign calls of cfg.set and cfg.assign
assignAll(m, obj) ==
    assignCI(assignOverride(ObjectAssign(m, m.config.id, obj), obj, EnvOverrideKey),
             obj)

\* _.set(config, key, value); return prev -- prev being the machine after
\* `const prev = _.get(config, key)`
setPath(prev, s, value) ==
    [LodashSet(prev, prev.config, s, value) EXCEPT !.ret = prev.ret]

\* cfg.set after readDefaultConfigFiles()
setBody(m, key, value) ==
    IF ~Ok(m) THEN m
    ELSE IF value = Undef /\ InstanceOfObject(key)
    THEN [assignAll(m, key) EXCEPT !.ret = Null]
    ELSE setPath(LodashGet(m, m.config, ToKeyString(key), Undef),
                 ToKeyString(key), value)

\* cfg.set(key, value): key is a value (a string, an object, anything)
cfgSet(m, key, value) == setBody(readDefaultConfigFiles(m), key, value)

\* merge(config, <value just read>)
mergeRead(r) == merge(r, r.config.id, r.ret)

\* merge(config, obj[key])
mergeOverride(m, obj, key) == mergeRead(PropRead(m, obj, key))

\* if (cfg.isCI()) merge(config, obj.$env_CI)
mergeCI(m, obj) == IF isCI THEN mergeOverride(m, obj, "$env_CI") ELSE m

\* cfg.merge after readDefaultConfigFiles()
mergeBody(m, obj) ==
    IF ~Ok(m) \/ ~InstanceOfObject(obj) THEN m
    ELSE [mergeCI(mergeOverride(merge(m, m.config.id, obj), obj, EnvOverrideKey), obj)
            EXCEPT !.ret = Undef]

\* cfg.merge(obj)
cfgMerge(m, obj) == mergeBody(readDefaultConfigFiles(m), obj)

\* cfg.assign after readDefaultConfigFiles()
assignBody(m, obj) ==
    IF ~Ok(m) \/ ~InstanceOfObject(obj) THEN m
    ELSE [assignAll(m, obj) EXCEPT !.ret = Undef]

\* cfg.assign with a fault: it hands its argument to cfg.set
cfgAssign_viaSet(m, obj) == cfgSet(m, obj, Undef)

\* cfg.assign(obj)
cfgAssign(m, obj) == assignBody(readDefaultConfigFiles(m), obj)

\* delete config[key]
deleteBody(m, key) ==
    IF ~Ok(m) THEN m
    ELSE [m EXCEPT !.heap[m.config.id].props = Drop(@, key), !.ret = Undef]

\* cfg.delete(key)
cfgDelete(m, key) == deleteBody(readDefaultConfigFiles(m), key)

\* the catch block with a fault: ignoreNotFound swallows every error
fileCatch_anyError(m, options) ==
    IF Ok(m) \/ m.err = "bound" THEN m
    ELSE IF options.ignoreNotFound \/ options.ignoreErrors
    THEN [m EXCEPT !.err = "none"]
    ELSE m

\* the catch block of cfg.file; "bound" is the model running out of objects,
\* no exception of the program
fileCatch(m, options) ==
    IF Ok(m) \/ m.err = "bound" THEN m
    ELSE IF m.err = "MODULE_NOT_FOUND" /\ options.ignoreNotFound
    THEN [m EXCEPT !.err = "none"]
    ELSE IF options.ignoreErrors THEN [m EXCEPT !.err = "none"]
    ELSE m

\* the try block of cfg.file
fileTry(m, file, options) ==
    IF Require(file).k # "exports"
    THEN [m EXCEPT !.err = RequireError(Require(file))]
    ELSE IF options.overwrite /\ TypeofObject(Require(file).v)
    THEN [m EXCEPT !.config = Require(file).v]
    ELSE cfgMerge(m, Require(file).v)

\* cfg.file(file, options)
cfgFile(m, file, options) ==
    IF ~IsAbsolute(file) THEN [m EXCEPT !.err = "ERR_ONLY_ABSOLUTE"]
    ELSE [fileCatch(fileTry(m, file, options), options) EXCEPT !.ret = Undef]

RECURSIVE loadFiles(_, _)
\* consecutive cfg.file(path, {ignoreNotFound: true}) calls; an exception
\* ends the sequence
loadFiles(m, files) ==
    IF files = << >> \/ ~Ok(m) THEN m
    ELSE loadFiles(cfgFile(m, Head(files), IgnoreNotFound), Tail(files))

RECURSIVE readEnvVars(_, _)
\* the forEach of readEnvVariables over the CFG__ variables
readEnvVars(m, vs) ==
    IF vs = << >> \/ ~Ok(m) THEN m
    ELSE readEnvVars(cfgSet(m, Str(EnvVarKey[Head(vs).name]), EnvValue(Head(vs))),
                     Tail(vs))

\* readEnvVariables()
readEnvVariables(m) == readEnvVars(m, cfgVars)

\* cfg.file(config.$privateConfigFile, ...), r.ret being the value read from
\* config.$privateConfigFile; path.isAbsolute throws on a non-string
privateFile(r) ==
    IF ~Truthy(r.ret) THEN r
    ELSE IF r.ret.t # "str" THEN [r EXCEPT !.err = "ERR_INVALID_ARG_TYPE"]
    ELSE cfgFile(r, r.ret.s, IgnoreNotFound)

\* if (config.$privateConfigFile) cfg.file(...)
privateStep(m) ==
    IF ~Ok(m) THEN m ELSE privateFile(PropRead(m, m.config, "$privateConfigFile"))

\* readEnvVariables(), unless an exception has ended the sequence
envStep(m) == IF Ok(m) THEN readEnvVariables(m) ELSE m

\* the load sequence with a fault: the environment variables are read first
loadSequence_envFirst(m) ==
    privateStep(loadFiles(envStep(m), DefaultFiles))

\* the part of readDefaultConfigFiles after `config = {}`
loadSequence(m) ==
    envStep(privateStep(loadFiles(m, DefaultFiles)))

\* readDefaultConfigFiles(): `config = {}` makes a new object; the model
\* reuses the id "cfg" for it, the former one being unreachable
readDefaultConfigFiles(m) ==
    IF Truthy(m.config) THEN m
    ELSE loadSequence([m EXCEPT !.config = Ref("cfg"),
                                !.heap["cfg"] = MapObj(EmptyProps),
                                !.loadRuns = @ + 1])

\* the result of cfg.read: the machine, the file cache and the read counter
ReadResult(m, cache, reads) == [m |-> m, cache |-> cache, reads |-> reads]

\* whether fs.readFileSync(filePath) finds a file
FileExists(filePath) ==
    filePath.t = "str" /\ filePath.s \in DOMAIN fs /\ fs[filePath.s].k = "file"

\* cfg.read after `const filePath = cfg(key)`, r.ret being filePath
readBody(r, cache, reads, key) ==
    IF ~Ok(r) THEN ReadResult(r, cache, reads)
    ELSE IF ~Truthy(r.ret)
    THEN ReadResult([r EXCEPT !.ret = Undef], Put(cache, key, Undef), reads)
    ELSE IF FileExists(r.ret)
    THEN ReadResult([r EXCEPT !.ret = fs[r.ret.s].bytes],
                    Put(cache, key, fs[r.ret.s].bytes), reads + 1)
    ELSE ReadResult([r EXCEPT !.ret = Undef], cache, reads + 1)

\* cfg.read(key)
cfgRead(m, cache, reads, key) ==
    IF key \in DOMAIN cache
    THEN ReadResult([m EXCEPT !.ret = cache[key]], cache, reads)
    ELSE readBody(cfg(m, key, Undef), cache, reads, key)

(***************************************************************************)
(* Observation of a call                                                   *)
(***************************************************************************)
RECURSIVE Content(_, _)
\* the content of a value: an object is unfolded into its properties, a
\* getter stays the descriptor it is
Content(h, v) ==
    IF v.t # "ref" THEN v
    ELSE [t |-> "obj", kind |-> h[v.id].kind,
          props |-> [k \in DOMAIN h[v.id].props |-> Content(h, h[v.id].props[k])]]

Tree == Content(heap, config)

IsMapping(c) == c.t = "obj" /\ c.kind = "map"
MapContent(p) == [t |-> "obj", kind |-> "map", props |-> p]
Has(c, k) == c.t = "obj" /\ k \in DOMAIN c.props

NoCall ==
    [op |-> "none", arg |-> Undef, value |-> Undef, file |-> "",
     options |-> Options(FALSE, FALSE, FALSE), ret |-> Undef, err |-> "none",
     preConfig |-> Undef, pre |-> Undef, argPre |-> Undef,
     runsBefore |-> 0, evalsBefore |-> 0, readsBefore |-> 0,
     readBefore |-> FALSE, prevOp |-> "none", prevArg |-> Undef]

\* the record of a call of `op` that ends in machine state m
Call(op, arg, m) ==
    [NoCall EXCEPT !.op = op, !.arg = arg, !.ret = m.ret, !.err = m.err,
                   !.preConfig = config, !.pre = Tree,
                   !.argPre = Content(heap, arg),
                   !.runsBefore = loadRuns, !.evalsBefore = evals,
                   !.readsBefore = fileReads,
                   !.prevOp = last.op, !.prevArg = last.arg]

\* the call ends: the machine state becomes the state of the process
Commit(m, rec) ==
    /\ ops < MaxOps
    /\ m.err # "bound"
    /\ config' = m.config
    /\ heap' = m.heap
    /\ evals' = m.evals
    /\ loadRuns' = m.loadRuns
    /\ last' = rec
    /\ ops' = ops + 1
    /\ UNCHANGED world

\* a call of `op` with argument `arg` that ends in machine state m
Do(op, arg, m) == Commit(m, Call(op, arg, m))

(***************************************************************************)
(* The merge function on its own: merge(config, src) for trees drawn from  *)
(* a bounded family                                                        *)
(***************************************************************************)
PropsOver(K, V) == UNION {[D -> V] : D \in SUBSET K}

\* the objects of a tree rooted at `root`: root {a, b}, child {x, y} under a,
\* grandchild {z: 1} under a.x
TreeObjects(root, g) ==
    LET child == root \o ".a"
        grand == root \o ".a.x"
        leaves == {Num(1), Num(2), Ref("ARR"), Getter(g)}
        tops == {p \in PropsOver({"a", "b"}, leaves \cup {Ref(child)}) :
                    "b" \in DOMAIN p => p["b"] # Ref(child)}
        kids == {p \in PropsOver({"x", "y"}, {Num(1), Num(2), Ref(grand)}) :
                    "y" \in DOMAIN p => p["y"] # Ref(grand)}
        hasChild(p) == "a" \in DOMAIN p /\ p["a"] = Ref(child)
        hasGrand(q) == "x" \in DOMAIN q /\ q["x"] = Ref(grand)
    IN  {[top |-> p, kid |-> q] : p \in {t \in tops : hasChild(t)}, q \in kids}
        \cup {[top |-> p, kid |-> EmptyProps] : p \in {t \in tops : ~hasChild(t)}}

TreeHeap(d, s) ==
    LET hasChild(o, c) == "a" \in DOMAIN o.top /\ o.top["a"] = Ref(c)
        hasGrand(o, c) == "x" \in DOMAIN o.kid /\ o.kid["x"] = Ref(c)
        obj(o, root, id) ==
            IF id = root THEN MapObj(o.top)
            ELSE IF id = root \o ".a"
            THEN (IF hasChild(o, id) THEN MapObj(o.kid) ELSE FreeObj)
            ELSE (IF hasGrand(o, id) THEN MapObj([z |-> Num(1)]) ELSE FreeObj)
    IN  [id \in {"cfg", "cfg.a", "cfg.a.x", "S", "S.a", "S.a.x", "ARR", "n1", "n2"} |->
            CASE id \in {"cfg", "cfg.a", "cfg.a.x"} -> obj(d, "cfg", id)
              [] id \in {"S", "S.a", "S.a.x"} -> obj(s, "S", id)
              [] id = "ARR" -> ArrObj([i \in {"0", "1"} |-> Num(1)])
              [] OTHER -> FreeObj]

NoVars == << >>
NoModules == [f \in {} |-> Missing]
NoFiles == [f \in {} |-> [k |-> "none"]]
NoReads == [k \in {} |-> Undef]

InitMerge ==
    /\ \E d \in TreeObjects("cfg", "gd"), s \in TreeObjects("S", "gs") :
          heap = TreeHeap(d, s)
    /\ config = Ref("cfg")
    /\ evals = 0
    /\ loadRuns = 1
    /\ fileCache = NoReads
    /\ fileReads = 0
    /\ nodeEnv = ""
    /\ ci = FALSE
    /\ cfgVars = NoVars
    /\ modules = NoModules
    /\ fs = NoFiles
    /\ firstRead = NoReads
    /\ last = NoCall
    /\ ops = 0

\* merge(config, src) is applied to the tree
PrimMerge ==
    /\ Do("primMerge", Ref("S"), merge(Cur, config.id, Ref("S")))
    /\ UNCHANGED << fileCache, fileReads, fs, firstRead >>

NextMerge == PrimMerge

SpecMerge == InitMerge /\ [][NextMerge]_vars

RECURSIVE DeepMerge(_, _)
\* what the claim says merge does, on contents: recursion where both sides
\* hold a plain mapping under a key of dest, replacement elsewhere
DeepMerge(d, s) ==
    [t |-> "obj", kind |-> d.kind,
     props |-> [k \in (DOMAIN d.props) \cup (DOMAIN s.props) |->
        IF k \notin DOMAIN s.props THEN d.props[k]
        ELSE IF k \in DOMAIN d.props /\ IsMapping(d.props[k]) /\ IsMapping(s.props[k])
        THEN DeepMerge(d.props[k], s.props[k])
        ELSE s.props[k]]]

\* C7: merge(dest, src) recurses into a key only when dest has the key and
\* both sides hold a plain mapping that is no getter, combining the nested
\* mappings key by key; in every other case the property of src replaces the
\* one of dest wholesale (a getter stays a getter), every key of dest that
\* src lacks keeps its value, and merge calls no getter.
C7_MergeRecursesOnlyIntoMappings ==
    last.op = "primMerge" =>
        /\ Tree = DeepMerge(last.pre, last.argPre)
        /\ evals = last.evalsBefore
        /\ last.err = "none"

\* merge({a: {x: 1}}, {a: {y: 2}}) has given {a: {x: 1, y: 2}}, and a getter
\* of src has replaced a value of dest
C7_Witness ==
    /\ last.op = "primMerge"
    /\ last.pre.props = [a |-> MapContent([x |-> Num(1)]), b |-> Num(1)]
    /\ last.argPre.props = [a |-> MapContent([y |-> Num(2)]), b |-> Getter("gs")]
    /\ Tree.props = [a |-> MapContent([x |-> Num(1), y |-> Num(2)]), b |-> Getter("gs")]

(***************************************************************************)
(* The public write operations on a tree, with caller-held source objects  *)
(***************************************************************************)
\* The objects callers hold, as the object literals that make them:
\*   M  = {a: {x: 1}, k: 1}                    (exported by /cwd/config.js)
\*   XA = {a: {x: 1}}
\*   XB = {a: {y: 2}, k: 2, $env_production: {k: 3}}
\*   XE = {$env_development: {$env_CI: {k: 2}}, $env_CI: {k: 1}}
\*   XN = {$env_development: {a: 1}, $env_CI: {$env_development: {k: 1}}}
\*   ARR = [1, 2]
SourceObjects ==
    ("M" :> MapObj([a |-> Ref("M.a"), k |-> Num(1)]))
    @@ ("M.a" :> MapObj([x |-> Num(1)]))
    @@ ("XA" :> MapObj([a |-> Ref("XA.a")]))
    @@ ("XA.a" :> MapObj([x |-> Num(1)]))
    @@ ("XB" :> MapObj(("a" :> Ref("XB.a")) @@ ("k" :> Num(2))
                       @@ ("$env_production" :> Ref("XB.prod"))))
    @@ ("XB.a" :> MapObj([y |-> Num(2)]))
    @@ ("XB.prod" :> MapObj([k |-> Num(3)]))
    @@ ("XE" :> MapObj(("$env_development" :> Ref("XE.dev"))
                       @@ ("$env_CI" :> Ref("XE.ci"))))
    @@ ("XE.dev" :> MapObj("$env_CI" :> Ref("XE.dev.ci")))
    @@ ("XE.dev.ci" :> MapObj([k |-> Num(2)]))
    @@ ("XE.ci" :> MapObj([k |-> Num(1)]))
    @@ ("XN" :> MapObj(("$env_development" :> Ref("XN.dev"))
                       @@ ("$env_CI" :> Ref("XN.ci"))))
    @@ ("XN.dev" :> MapObj([a |-> Num(1)]))
    @@ ("XN.ci" :> MapObj("$env_development" :> Ref("XN.ci.dev")))
    @@ ("XN.ci.dev" :> MapObj([k |-> Num(1)]))
    @@ ("ARR" :> ArrObj(("0" :> Num(1)) @@ ("1" :> Num(2))))

SourceIds == DOMAIN SourceObjects

\* the heap before the first call: the callers' objects, and the objects the
\* program will make
TreeHeap0 ==
    [id \in SourceIds \cup {"cfg", "n1", "n2"} |->
        IF id \in SourceIds THEN SourceObjects[id] ELSE FreeObj]

InitTree ==
    /\ heap = TreeHeap0
    /\ config = Undef
    /\ evals = 0
    /\ loadRuns = 0
    /\ fileCache = NoReads
    /\ fileReads = 0
    /\ nodeEnv \in {"", "production"}
    /\ ci \in BOOLEAN
    /\ cfgVars = NoVars
    /\ modules \in {NoModules, "/cwd/config.js" :> Exports(Ref("M"))}
    /\ fs = NoFiles
    /\ firstRead = NoReads
    /\ last = NoCall
    /\ ops = 0

\* what callers pass as the one argument of merge, assign and set
TreeArgs ==
    {Ref("XA"), Ref("XB"), Ref("XE"), Ref("XN"), Ref("ARR"),
     Num(7), Str("k"), Null, Undef}

UnchangedFiles == UNCHANGED << fileCache, fileReads, fs, firstRead >>

\* cfg.merge(arg)
Merge ==
    \E arg \in TreeArgs :
        /\ Do("merge", arg, cfgMerge(Cur, arg))
        /\ UnchangedFiles

\* cfg.assign(arg)
Assign ==
    \E arg \in TreeArgs :
        /\ Do("assign", arg, cfgAssign(Cur, arg))
        /\ UnchangedFiles

DoSet(key, value, m) == Commit(m, [Call("set", key, m) EXCEPT !.value = value])

\* cfg.set(key) and cfg.set(key, value)
Set ==
    \E key \in TreeArgs \cup {Str("cfg.path")}, value \in {Undef, Num(3)} :
        /\ value # Undef => key.t = "str"
        /\ value = Undef => key # Str("cfg.path")
        /\ DoSet(key, value, cfgSet(Cur, key, value))
        /\ UnchangedFiles

\* cfg.delete(key)
Delete ==
    \E key \in {"a", "k"} :
        /\ Do("delete", Str(key), cfgDelete(Cur, key))
        /\ UnchangedFiles

\* cfg.get(key)
Get ==
    \E key \in {"a", "k", "cfg.path"} :
        /\ Do("get", Str(key), cfg(Cur, key, Undef))
        /\ UnchangedFiles

NextTree == Merge \/ Assign \/ Set \/ Delete \/ Get

SpecTree == InitTree /\ [][NextTree]_vars

Initialized == Truthy(last.preConfig)

\* C5: with isCI() true, merge(obj) with obj.$env_CI = {k: 1} leaves k = 1 at
\* the top of the tree, whatever the tree, the environment name and the
\* override of obj for that environment are.
C5_CIOverrideWins ==
    (/\ last.op = "merge"
     /\ isCI
     /\ Has(last.argPre, "$env_CI")
     /\ last.argPre.props["$env_CI"] = MapContent([k |-> Num(1)]))
    => (Has(Tree, "k") /\ Tree.props["k"] = Num(1))

\* C6: merge(X); merge(X) leaves the tree with the content it has after one
\* merge(X), for every tree and every mapping X without getters.
C6_MergeIdempotent ==
    (/\ last.op = "merge"
     /\ last.prevOp = "merge"
     /\ last.prevArg = last.arg
     /\ IsMapping(last.argPre))
    => Tree = last.pre

\* C10: no object passed in as a source, and none of its nested objects, is
\* modified by an operation on the tree.
C10_SourcesNotModified ==
    \A id \in SourceIds : heap[id] = SourceObjects[id]

OneArgument ==
    last.op \in {"merge", "assign"} \/ (last.op = "set" /\ last.value = Undef)

\* C8 as stated: merge(arg), assign(arg) and set(arg) leave the initialized
\* tree unchanged and raise no error whenever arg is no mapping, and change
\* the tree for every non-empty mapping.
C8_AsStated ==
    (OneArgument /\ Initialized) =>
        /\ ~IsMapping(last.argPre) => (Tree = last.pre /\ last.err = "none")
        /\ (IsMapping(last.argPre) /\ DOMAIN last.argPre.props # {}) => Tree # last.pre

\* C8, amended: merge(arg) and assign(arg) leave the initialized tree
\* unchanged and raise no error whenever arg is a scalar, null or undefined;
\* set(arg) with such an arg stores undefined under the key String(arg); a
\* sequence is taken as the mapping of its indices to its elements; and a
\* call that returns changes the tree for every mapping argument that has a
\* top-level key the tree lacks.
C8_NonObjectArgumentIsNoOp ==
    (OneArgument /\ Initialized) =>
        /\ (last.op \in {"merge", "assign"} /\ last.arg.t # "ref")
              => (Tree = last.pre /\ last.err = "none")
        /\ (last.op = "set" /\ last.arg.t # "ref")
              => /\ Has(Tree, ToKeyString(last.arg))
                 /\ Tree.props[ToKeyString(last.arg)] = Undef
                 /\ last.err = "none"
        /\ (last.argPre.t = "obj" /\ last.argPre.kind = "arr")
              => /\ \A i \in DOMAIN last.argPre.props :
                        Has(Tree, i) /\ Tree.props[i] = last.argPre.props[i]
                 /\ last.err = "none"
        /\ (/\ IsMapping(last.argPre)
            /\ last.err = "none"
            /\ \E k \in DOMAIN last.argPre.props : ~Has(last.pre, k))
              => Tree # last.pre

\* assign(7) has been called on a tree that holds k
C8_Witness ==
    /\ last.op = "assign"
    /\ last.arg = Num(7)
    /\ Initialized
    /\ Has(last.pre, "k")
    /\ Tree = last.pre

(***************************************************************************)
(* cfg.file with every combination of options, on files of every kind      *)
(***************************************************************************)
\* /app/map.js exports XB, /app/arr.js exports ARR, /app/null.js exports
\* null, /app/num.js exports 7, /app/throws.js throws while loading,
\* /app/dep.js requires a module that does not exist, /app/none.js does not
\* exist; /cwd/config.js is drawn by InitFile
AppModules ==
    ("/app/map.js" :> Exports(Ref("XB")))
    @@ ("/app/arr.js" :> Exports(Ref("ARR")))
    @@ ("/app/null.js" :> Exports(Null))
    @@ ("/app/num.js" :> Exports(Num(7)))
    @@ ("/app/throws.js" :> Throws)
    @@ ("/app/dep.js" :> DepMissing)

FilePaths == (DOMAIN AppModules) \cup {"/app/none.js", "conf/rel.js"}

InitFile ==
    /\ heap = TreeHeap0
    /\ config = Undef
    /\ evals = 0
    /\ loadRuns = 0
    /\ fileCache = NoReads
    /\ fileReads = 0
    /\ nodeEnv = ""
    /\ ci = FALSE
    /\ cfgVars = NoVars
    /\ \E base \in {Missing, Exports(Ref("M")), Throws, DepMissing} :
          modules = AppModules @@ ("/cwd/config.js" :> base)
    /\ fs = NoFiles
    /\ firstRead = NoReads
    /\ last = NoCall
    /\ ops = 0

DoFile(file, options, m) ==
    Commit(m, [Call("file", Str(file), m) EXCEPT !.file = file, !.options = options])

\* cfg.file(file, options)
File ==
    \E file \in FilePaths, options \in AllOptions :
        /\ DoFile(file, options, cfgFile(Cur, file, options))
        /\ UnchangedFiles

NextFile == File \/ Get

SpecFile == InitFile /\ [][NextFile]_vars

\* the last call was cfg.file on an absolute path, and require gave `kind`
FileCall(kind) ==
    last.op = "file" /\ IsAbsolute(last.file) /\ Require(last.file).k = kind

TreeUntouched == config = last.preConfig /\ Tree = last.pre

\* C1: the default load sequence runs exactly once per process: the first
\* read or write that finds the tree uninitialized runs it before it acts on
\* the tree, and no later operation runs it again.
C1_DefaultsLoadedExactlyOnce ==
    /\ loadRuns <= 1
    /\ (\/ last.op \in {"get", "set", "merge", "assign", "delete", "read"}
        \/ FileCall("exports"))
       => loadRuns = 1

C3_OverwriteOnlyByPlainMapping ==
    (FileCall("exports") /\ last.err = "none") =>
        IF last.options.overwrite /\ isObject(heap, Require(last.file).v)
        THEN config = Require(last.file).v
        ELSE config = (IF Truthy(last.preConfig) THEN last.preConfig ELSE Ref("cfg"))

(***************************************************************************)
(* The default load sequence over every choice of default files            *)
(***************************************************************************)
\* The default sources, each giving k a value of its own:
\*   /cwd/config.js             {k: 10}, or
\*                              {k: 10, $privateConfigFile: '/etc/extra.js'}
\*   /cwd/config.<env>.js       {k: 21} development, {k: 22} production
\*   /cwd/config.CI.js          {k: 30}
\*   /cwd/private/config.js     {k: 40}
\*   /cwd/private/config.<env>.js  {k: 51} development, {k: 52} production
\*   /cwd/private/config.CI.js  {k: 60}
\*   /etc/extra.js              {k: 70}
\*   CFG__K=80, CFG__K=@JSON:81 or CFG__K=@JSON:{
LoadObjects ==
    ("base" :> MapObj([k |-> Num(10)]))
    @@ ("baseP" :> MapObj(("k" :> Num(10))
                          @@ ("$privateConfigFile" :> Str("/etc/extra.js"))))
    @@ ("dev" :> MapObj([k |-> Num(21)]))
    @@ ("prod" :> MapObj([k |-> Num(22)]))
    @@ ("ci" :> MapObj([k |-> Num(30)]))
    @@ ("pbase" :> MapObj([k |-> Num(40)]))
    @@ ("pdev" :> MapObj([k |-> Num(51)]))
    @@ ("pprod" :> MapObj([k |-> Num(52)]))
    @@ ("pci" :> MapObj([k |-> Num(60)]))
    @@ ("extra" :> MapObj([k |-> Num(70)]))

LoadId ==
    ("/cwd/config.js" :> "base")
    @@ ("/cwd/config.development.js" :> "dev")
    @@ ("/cwd/config.production.js" :> "prod")
    @@ ("/cwd/config.CI.js" :> "ci")
    @@ ("/cwd/private/config.js" :> "pbase")
    @@ ("/cwd/private/config.development.js" :> "pdev")
    @@ ("/cwd/private/config.production.js" :> "pprod")
    @@ ("/cwd/private/config.CI.js" :> "pci")
    @@ ("/etc/extra.js" :> "extra")

LoadPaths == DOMAIN LoadId

LoadHeap0 ==
    [id \in (DOMAIN LoadObjects) \cup {"cfg", "n1", "n2"} |->
        IF id \in DOMAIN LoadObjects THEN LoadObjects[id] ELSE FreeObj]

InitLoad ==
    /\ heap = LoadHeap0
    /\ config = Undef
    /\ evals = 0
    /\ loadRuns = 0
    /\ fileCache = NoReads
    /\ fileReads = 0
    /\ nodeEnv \in {"", "production"}
    /\ ci \in BOOLEAN
    /\ cfgVars \in {NoVars,
                    << EnvVar("CFG__K", "80") >>,
                    << JsonEnvVar("CFG__K", "@JSON:81", Num(81)) >>,
                    << BadJsonEnvVar("CFG__K", "@JSON:{") >>}
    /\ \E present \in SUBSET LoadPaths, pointer \in BOOLEAN :
          /\ pointer => "/cwd/config.js" \in present
          /\ modules = [f \in present |->
                           IF pointer /\ f = "/cwd/config.js"
                           THEN Exports(Ref("baseP"))
                           ELSE Exports(Ref(LoadId[f]))]
    /\ fs = NoFiles
    /\ firstRead = NoReads
    /\ last = NoCall
    /\ ops = 0

NextLoad == Get

SpecLoad == InitLoad /\ [][NextLoad]_vars

\* the order of the default files as C9 gives it
ClaimedOrder ==
    << "/cwd/config.js",
       IF nodeEnv = "production" THEN "/cwd/config.production.js"
                                 ELSE "/cwd/config.development.js" >>
    \o (IF ci THEN << "/cwd/config.CI.js" >> ELSE << >>)
    \o << "/cwd/private/config.js",
          IF nodeEnv = "production" THEN "/cwd/private/config.production.js"
                                    ELSE "/cwd/private/config.development.js" >>
    \o (IF ci THEN << "/cwd/private/config.CI.js" >> ELSE << >>)
    \o (IF Require("/cwd/config.js") = Exports(Ref("baseP"))
        THEN << "/etc/extra.js" >> ELSE << >>)

IsPresent(f) == f \in DOMAIN modules

PresentSources == SelectSeq(ClaimedOrder, IsPresent)

\* the value of k in the source that is latest in the claimed order
LatestK ==
    IF cfgVars # NoVars THEN EnvValue(cfgVars[Len(cfgVars)])
    ELSE IF PresentSources = << >> THEN Undef
    ELSE LoadObjects[LoadId[PresentSources[Len(PresentSources)]]].props["k"]

\* C9: after lazy initialization get(k) returns the value k has in the
\* source latest in the order base file, environment-named file, CI file (if
\* CI), private base file, private environment-named file, private CI file
\* (if CI), $privateConfigFile file, CFG__ variable.
C9_LatestSourceWins ==
    (last.op = "get" /\ last.arg = Str("k"))
    => (last.err = "none" /\ last.ret = LatestK)

\* get(k) with CI set, no CFG__K, and all of config.js (naming
\* /etc/extra.js), the private CI file and /etc/extra.js present
C9_Witness ==
    /\ last.op = "get"
    /\ last.arg = Str("k")
    /\ ci
    /\ cfgVars = NoVars
    /\ {"/cwd/config.js", "/cwd/private/config.CI.js", "/etc/extra.js"}
          \subseteq DOMAIN modules
    /\ Require("/cwd/config.js") = Exports(Ref("baseP"))
    /\ last.ret = Num(70)

(***************************************************************************)
(* cfg.read while the tree and the file system change                      *)
(***************************************************************************)
\* /cwd/config.js exports RC = {p: '/data/f'}; the tree has no key q
ReadHeap0 == TreeHeap0 @@ ("RC" :> MapObj([p |-> Str("/data/f")]))

DataPaths == {"/data/f", "/data/g"}

NoFile == [k |-> "none"]
FileOf(b) == [k |-> "file", bytes |-> Bytes(b)]
FileStates == {NoFile, FileOf("b1"), FileOf("b2")}

InitRead ==
    /\ heap = ReadHeap0
    /\ config = Undef
    /\ evals = 0
    /\ loadRuns = 0
    /\ fileCache = NoReads
    /\ fileReads = 0
    /\ nodeEnv = ""
    /\ ci = FALSE
    /\ cfgVars = NoVars
    /\ modules = ("/cwd/config.js" :> Exports(Ref("RC")))
    /\ fs \in [DataPaths -> FileStates]
    /\ firstRead = NoReads
    /\ last = NoCall
    /\ ops = 0

DoRead(key, r) ==
    /\ Commit(r.m, [Call("read", Str(key), r.m)
                       EXCEPT !.readBefore = key \in DOMAIN firstRead])
    /\ fileCache' = r.cache
    /\ fileReads' = r.reads
    /\ firstRead' = IF key \in DOMAIN firstRead \/ ~Ok(r.m) THEN firstRead
                    ELSE Put(firstRead, key, r.m.ret)

\* cfg.read(key)
Read ==
    \E key \in {"p", "q"} :
        /\ DoRead(key, cfgRead(Cur, fileCache, fileReads, key))
        /\ UNCHANGED fs

\* cfg.set('p', path): the tree value at p changes
SetPath ==
    \E value \in {Str("/data/f"), Str("/data/g")} :
        /\ DoSet(Str("p"), value, cfgSet(Cur, Str("p"), value))
        /\ UnchangedFiles

\* a file is created, rewritten or removed by another process
FsChange ==
    \E f \in DataPaths, c \in FileStates :
        /\ fs[f] # c
        /\ fs' = [fs EXCEPT ![f] = c]
        /\ UNCHANGED << config, heap, evals, loadRuns, fileCache, fileReads,
                        nodeEnv, ci, cfgVars, modules, firstRead, last, ops >>

NextRead == Read \/ SetPath \/ FsChange

SpecRead == InitRead /\ [][NextRead]_vars

\* C4: after the first read(key), every later read(key) returns the value
\* the first call returned and performs no further file read, whatever has
\* changed in the tree or in the file system since.
C4_ReadCachedOnce ==
    (last.op = "read" /\ last.readBefore /\ last.err = "none")
    => /\ last.ret = firstRead[last.arg.s]
       /\ fileReads = last.readsBefore

=============================================================================
